---- MODULE Spec2Model ----
(***************************************************************************)
(* Null-space active-set QP solver driver (src/src/qpsolver/solver.cpp).   *)
(*                                                                         *)
(* Solver::solve(x0, ra, basis) is modelled as a state machine whose       *)
(* program counter walks the loop of lines 207-308: LoopTop (limit checks, *)
(* logging, counter), Direction (pricing and the major or minor search     *)
(* direction), Step (flip, ratio test, reduce, activate, updates) and      *)
(* Finish (lines 310-329).  The collaborators whose code is not part of    *)
(* the driver (Basis, Pricing, RatioTest, Gradient family, factor) are     *)
(* modelled by their contracts: their numeric results are drawn from small *)
(* integer sets, so that every floating-point comparison of the driver is  *)
(* an exact integer comparison.                                            *)
(***************************************************************************)
EXTENDS Integers, Sequences, FiniteSets, TLC

(***************************************************************************)
(* Bounds of the model.                                                    *)
(***************************************************************************)
MaxIterLimit == 2    \* largest settings.iterationlimit tried
MaxClock == 1        \* the clock reading never passes this value
TimeLimit == 1       \* settings.timelimit
ReportingFrequency == 2   \* settings.reportingfequency

(***************************************************************************)
(* Program constants.                                                      *)
(***************************************************************************)
Inf == 1000                \* std::numeric_limits<double>::infinity()
NoConstraint == -1         \* "no index": pricing and ratio-test result
CurvatureThreshold == 0    \* 10E-5 on integer curvature values
PnormZeroThreshold == 1    \* settings.pnorm_zero_threshold on integer norms
DZeroThreshold == 1        \* settings.d_zero_threshold on integer entries

(***************************************************************************)
(* The instance (section 8 of the specification: two variables, one row    *)
(* x1 + x2 >= 1, x >= 0), with an upper bound on the first variable so     *)
(* that both bound directions occur.  Rows first, then variable bounds.    *)
(***************************************************************************)
InstanceA == << << 1, 1 >> >>
InstanceConLo == << 1 >>
InstanceVarLo == << 0, 0 >>
InstanceVarUp == << 2, Inf >>
NumCon == Len(InstanceA)          \* instance.num_con
NumVar == Len(InstanceVarLo)      \* instance.num_var

Vars == 0 .. NumVar - 1
Cons == 0 .. NumCon - 1
Indices == 0 .. NumCon + NumVar - 1      \* rows first, then variable bounds
Slots == 0 .. NumVar - 1                 \* positions in the basis factor

Abs(v) == IF v < 0 THEN -v ELSE v
NaN == Inf + 1               \* the result of inf - inf
IsFinite(v) == Abs(v) < Inf
ZeroVec(S) == [i \in S |-> 0]

A(i, j) == InstanceA[i + 1][j + 1]
VarLo(j) == InstanceVarLo[j + 1]
VarUp(j) == InstanceVarUp[j + 1]
ConLo(i) == InstanceConLo[i + 1]
ConUp(i) == Inf

RECURSIVE SumOver(_, _)
SumOver(S, f) ==
  IF S = {} THEN 0
  ELSE LET e == CHOOSE x \in S : TRUE IN f[e] + SumOver(S \ {e}, f)

\* instance.A.mat_vec(x, target) on finite vectors
MatVec(x) == [i \in Cons |-> SumOver(Vars, [j \in Vars |-> A(i, j) * x[j]])]

\* the row of the constraint matrix that index e stands for (a unit row for
\* a variable bound)
RowOf(e) == [j \in Vars |-> IF e < NumCon THEN A(e, j)
                            ELSE IF j = e - NumCon THEN 1 ELSE 0]
Dot(u, v) == SumOver(Vars, [j \in Vars |-> u[j] * v[j]])
LoOf(e) == IF e < NumCon THEN ConLo(e) ELSE VarLo(e - NumCon)
UpOf(e) == IF e < NumCon THEN ConUp(e) ELSE VarUp(e - NumCon)

(***************************************************************************)
(* Sequence helpers (snippets.hpp: indexof, remove).                       *)
(***************************************************************************)
Range(s) == {s[i] : i \in 1 .. Len(s)}
\* indexof(vec, elem): 0-based position, -1 when absent
IndexOf(s, e) ==
  IF e \in Range(s) THEN (CHOOSE i \in 1 .. Len(s) : s[i] = e) - 1 ELSE -1
Remove(s, e) == SelectSeq(s, LAMBDA x : x # e)

VARIABLES
  pc,              \* where Solver::solve is
  status,          \* runtime.status
  iterationlimit,  \* runtime.settings.iterationlimit
  x0,              \* the crash-start primal handed to solve
  b0,              \* the crash-start active list handed to solve
  primal,          \* runtime.primal
  rowactivity,     \* runtime.rowactivity
  dualcon,         \* runtime.dualcon
  dualvar,         \* runtime.dualvar
  num_iterations,  \* runtime.statistics.num_iterations
  stat_iteration,  \* runtime.statistics.iteration (one entry per snapshot)
  stat_nullspacedimension,  \* runtime.statistics.nullspacedimension
  nfired,          \* number of endofiterationevent.fire calls
  clock,           \* runtime.timer.readRunHighsClock()
  atfsep,          \* the phase flag
  active,          \* basis.getactive()
  inactive,        \* basis.getinactive()
  basisstatus,     \* basis.getstatus(i)
  indexinfactor,   \* basis.getindexinfactor()
  factordim,       \* dimension of the Cholesky factor
  redgrad,         \* the reduced gradient, one entry per null-space slot
  lambda,          \* the reduced costs by factor slot
  rcfresh,         \* whether lambda holds the value of the last update
  p,               \* search direction
  rowmove,         \* A p after tidyup
  maxsteplength,   \* local of the loop body
  zero_curvature_direction,  \* local of the loop body
  ops,             \* operations performed in the current loop pass, in order
  called,          \* operations performed since solve was entered
  minidx,          \* result of the last pricing call
  stepres,         \* result of the last ratio test
  buffer_d,        \* buffer filled by reduce
  pdotg,           \* p . gradient of the current direction
  curvature,       \* p^T Q p of the current direction
  dobj,            \* twice the change of the objective in the last step
  run,             \* 1 in the first solve, 2 in a solve restarted from its result
  nbody,           \* loop bodies entered (line 227 passed)
  raystep,         \* a step with no blocking constraint and infinite length was taken
  lpbasis,         \* lpsolver.getBasis() of the LP relaxation
  basischeckpoint, \* HighsLpRelaxation::basischeckpoint
  currentbasisstored,  \* HighsLpRelaxation::currentbasisstored
  lastset,         \* argument of the last setStoredBasis call
  captured,        \* LP basis at the first storeBasis since then that found it valid
  lpcall,          \* the last call made on the LP relaxation
  lpret,           \* what the last getStoredBasis returned
  lpcalls,         \* number of calls made on the LP relaxation
  basisinds,       \* basic variable of each basis position (getBasicVariables)
  row_value,       \* lpSolution.row_value
  col_value,       \* lpSolution.col_value
  basispos,        \* the loop index i of separateLpSolution
  invstatus,       \* result of getBasisInverseRow at the last position
  rowWeights,      \* the row of the basis inverse it delivered
  lpAggregator,    \* weight of each LP row in the current aggregation
  cuts,            \* the generateCut calls made, in order
  seppc            \* where separateLpSolution is

qpvars == << pc, status, iterationlimit, x0, b0, primal, rowactivity, dualcon,
           dualvar, num_iterations, stat_iteration, stat_nullspacedimension,
           nfired, clock, atfsep,
           active, inactive, basisstatus, indexinfactor, factordim, redgrad,
           lambda, rcfresh, p, rowmove, maxsteplength,
           zero_curvature_direction, minidx, stepres, buffer_d, ops, called,
           pdotg, curvature, dobj, run, nbody, raystep >>
lpvars == << lpbasis, basischeckpoint, currentbasisstored, lastset, captured,
            lpcall, lpret, lpcalls >>
sepvars == << basisinds, row_value, col_value, basispos, invstatus,
             rowWeights, lpAggregator, cuts, seppc >>
mipvars == << lpvars, sepvars >>
vars == << qpvars, mipvars >>

basisvars == << active, inactive, basisstatus, indexinfactor >>
dirvars == << p, rowmove, maxsteplength, zero_curvature_direction >>
localvars == << minidx, stepres, buffer_d >>
objvars == << pdotg, curvature, dobj >>
pointvars == << primal, rowactivity >>
dualvars == << dualcon, dualvar >>
statvars == << stat_iteration, stat_nullspacedimension, nfired >>
inputvars == << iterationlimit, x0, b0 >>

Log(seq) == ops' = ops \o seq /\ called' = called \cup Range(seq)

(***************************************************************************)
(* Vector arithmetic on values that may be infinite (Vector::saxpy: only   *)
(* the non-zero entries of the direction are touched).                     *)
(***************************************************************************)
Saxpy1(x, alpha, d) ==
  IF d = 0 THEN x
  ELSE IF x = NaN THEN NaN
  ELSE IF alpha = Inf
       THEN IF d > 0 THEN (IF x = -Inf THEN NaN ELSE Inf)
            ELSE (IF x = Inf THEN NaN ELSE -Inf)
  ELSE IF IsFinite(x) THEN x + alpha * d ELSE x
Saxpy(x, alpha, d) == [i \in DOMAIN x |-> Saxpy1(x[i], alpha, d[i])]
Norm2(v) == SumOver(DOMAIN v, [i \in DOMAIN v |-> v[i] * v[i]])

(***************************************************************************)
(* Directions the collaborators can return: entries in -1..1 with row      *)
(* moves in -1..1 (so every ratio of the ratio test is an integer).        *)
(***************************************************************************)
DirSet == {v \in [Vars -> -1 .. 1] :
             /\ v # ZeroVec(Vars)
             /\ \A i \in Cons : Abs(MatVec(v)[i]) <= 1}
\* directions along which none of the constraints in S moves
NullDirs(S) == {v \in DirSet : \A e \in S : Dot(RowOf(e), v) = 0}

(***************************************************************************)
(* Crash starts: a feasible point and a basis (active list, statuses,      *)
(* inactive list) with as many slots as variables.                         *)
(***************************************************************************)
RECURSIVE SortedSeq(_)
SortedSeq(S) ==
  IF S = {} THEN << >>
  ELSE LET m == CHOOSE x \in S : \A y \in S : x <= y
       IN << m >> \o SortedSeq(S \ {m})

Feasible(x) ==
  /\ \A j \in Vars : VarLo(j) <= x[j] /\ x[j] <= VarUp(j)
  /\ \A i \in Cons : ConLo(i) <= MatVec(x)[i] /\ MatVec(x)[i] <= ConUp(i)
CrashPoints == {x \in [Vars -> 0 .. 1] : Feasible(x)}

StatusOK(st) ==
  \A e \in Indices :
    /\ st[e] = "ActiveAtLower" => IsFinite(LoOf(e))
    /\ st[e] = "ActiveAtUpper" => IsFinite(UpOf(e))
CrashBases ==
  {b \in [act : {SortedSeq(S) : S \in SUBSET Indices},
          st : [Indices -> {"Default", "ActiveAtLower", "ActiveAtUpper"}],
          inact : {SortedSeq(S) : S \in SUBSET Indices}] :
     /\ Len(b.act) + Len(b.inact) = NumVar
     /\ Range(b.act) \cap Range(b.inact) = {}
     /\ \A e \in Indices : (b.st[e] # "Default") <=> (e \in Range(b.act))
     /\ StatusOK(b.st)}

\* Basis::Basis: the factor slots are handed out along active ++ inactive
InitialSlots(act, inact) ==
  [e \in Indices |-> IndexOf(act \o inact, e)]

\* the value index e has at point x with row activities ra
ValueAt(e, x, ra) == IF e < NumCon THEN ra[e] ELSE x[e - NumCon]
BoundOf(e, st) == IF st = "ActiveAtLower" THEN LoOf(e) ELSE UpOf(e)
\* every active index sits at the bound its status names
Tight(act, st, x, ra) ==
  \A e \in Range(act) : ValueAt(e, x, ra) = BoundOf(e, st[e])

\* the locals of the loop body before they are first written
NoStep == [alpha |-> 0, limitingconstraint |-> NoConstraint,
           nowactiveatlower |-> FALSE]

(***************************************************************************)
(* HighsLpRelaxation.h lines 221-235: the basis checkpoint.  A HighsBasis  *)
(* is its identity and its valid flag; the checkpoint is a shared pointer, *)
(* empty after construction.  storeBasis copies the LP solver's basis.     *)
(***************************************************************************)
NumLpBases == 2
MaxLpCalls == 4
NullBasis == [id |-> 0, valid |-> FALSE]
LpBases == [id : 1 .. NumLpBases, valid : BOOLEAN]
BasisPointers == LpBases \cup {NullBasis}
NoCall == [op |-> "none", arg |-> NullBasis]

LpCheckpointInit ==
  /\ lpbasis = [id |-> 1, valid |-> FALSE]
  /\ basischeckpoint = NullBasis
  /\ currentbasisstored = FALSE
  /\ lastset = NullBasis
  /\ captured = NullBasis
  /\ lpcall = NoCall
  /\ lpret = NullBasis
  /\ lpcalls = 0

\* variant of line 222 that stores whenever the LP basis is valid
MayStoreAlways(stored, valid) == valid
\* line 222
MayStore(stored, valid) == ~stored /\ valid

\* lines 221-226
StoreBasis ==
  /\ lpcalls < MaxLpCalls
  /\ lpcalls' = lpcalls + 1
  /\ lpcall' = [op |-> "storeBasis", arg |-> lpbasis]
  /\ IF MayStore(currentbasisstored, lpbasis.valid)
       THEN /\ basischeckpoint' = lpbasis
            /\ currentbasisstored' = TRUE
       ELSE UNCHANGED << basischeckpoint, currentbasisstored >>
  /\ captured' = IF captured = NullBasis /\ lpbasis.valid THEN lpbasis
                 ELSE captured
  /\ UNCHANGED << qpvars, sepvars, lpbasis, lastset, lpret >>

\* lines 228-230
GetStoredBasis ==
  /\ lpcalls < MaxLpCalls
  /\ lpcalls' = lpcalls + 1
  /\ lpcall' = [op |-> "getStoredBasis", arg |-> NullBasis]
  /\ lpret' = basischeckpoint
  /\ UNCHANGED << qpvars, sepvars, lpbasis, basischeckpoint, currentbasisstored,
                  lastset, captured >>

\* lines 232-235
SetStoredBasis ==
  /\ lpcalls < MaxLpCalls
  /\ lpcalls' = lpcalls + 1
  /\ \E basis \in BasisPointers :
       /\ lpcall' = [op |-> "setStoredBasis", arg |-> basis]
       /\ basischeckpoint' = basis
       /\ lastset' = basis
  /\ currentbasisstored' = FALSE
  /\ captured' = NullBasis
  /\ UNCHANGED << qpvars, sepvars, lpbasis, lpret >>

\* the LP solver moves to another basis between two calls
LpBasisChanges ==
  /\ lpcall.op # "lp"
  /\ lpbasis' \in LpBases \ {lpbasis}
  /\ lpcall' = [op |-> "lp", arg |-> NullBasis]
  /\ UNCHANGED << qpvars, sepvars, basischeckpoint, currentbasisstored, lastset,
                  captured, lpret, lpcalls >>

(***************************************************************************)
(* HighsTableauSeparator.cpp lines 22-88: separateLpSolution.  Values of   *)
(* the LP solution are counted in units of 0.00005, so that 1e-4 is 2      *)
(* units and 1.0 is 20000.  An aggregation is the weight it gives to each  *)
(* LP row; its negation has the weights negated.                           *)
(***************************************************************************)
FracScale == 20000
FracThreshold == 2
Epsilon == 1
SepRows == 0 .. 1
SepCols == 0 .. 1
\* lpRelaxation.isRowIntegral(row) and mip.variableType(col) of the instance
IsRowIntegral(row) == row = 0
IsContinuous(col) == col = 1
SolVals == {20001, 20002, 30000, -10000}
WeightVals == {-2, 0, 1, 2}
BasicVariables == {-2, -1, 0, 1}
EmptyAggregation == [r \in SepRows |-> 0]

\* std::round: to the nearest integer, halves away from zero
RoundPos(v) == ((2 * v + FracScale) \div (2 * FracScale)) * FracScale
Round(v) == IF v >= 0 THEN RoundPos(v) ELSE 0 - RoundPos(0 - v)
\* lines 55 and 61
Fractionality(solval) == Abs(Round(solval) - solval)
\* lines 49-58: the basic variable of a position is a row or a column
IsIntegralBasic(bi) ==
  IF bi < 0 THEN IsRowIntegral((0 - bi) - 1) ELSE ~IsContinuous(bi)
SolValOf(bi) == IF bi < 0 THEN row_value[(0 - bi) - 1] ELSE col_value[bi]
\* lines 70-74: addRow for the rows whose weight is above epsilon
AddRows(agg, w) ==
  [r \in SepRows |-> IF Abs(w[r]) <= Epsilon THEN agg[r] ELSE agg[r] + w[r]]
\* lpAggregator.getCurrentAggregation(inds, vals, negate)
GetCurrentAggregation(agg, negate) ==
  [r \in SepRows |-> IF negate THEN 0 - agg[r] ELSE agg[r]]
\* variant of line 86 that keeps the aggregation
ClearedKeep(agg) == agg
\* line 86
Cleared(agg) == EmptyAggregation

SepInit ==
  /\ basisinds \in {q \in [1 .. 2 -> BasicVariables] : q[1] # q[2]}
  /\ row_value \in {v \in [SepRows -> SolVals] : v[1] = 30000}
  /\ col_value \in {v \in [SepCols -> SolVals] : v[1] = 30000}
  /\ basispos = 0
  /\ invstatus = "NotCalled"
  /\ rowWeights = EmptyAggregation
  /\ lpAggregator = EmptyAggregation
  /\ cuts = << >>
  /\ seppc = "loop"
SepParked ==
  /\ SepInit
  /\ basisinds = << -1, -2 >>
  /\ row_value = [r \in SepRows |-> 30000]
  /\ col_value = [r \in SepCols |-> 30000]

AtPosition == seppc = "loop" /\ basispos < Len(basisinds)
BasicHere == basisinds[basispos + 1]

\* lines 52 and 58: the basic variable is not integral
SepSkipContinuous ==
  /\ AtPosition
  /\ ~IsIntegralBasic(BasicHere)
  /\ basispos' = basispos + 1
  /\ invstatus' = "NotCalled"
  /\ UNCHANGED << qpvars, lpvars, basisinds, row_value, col_value,
                  rowWeights, lpAggregator, cuts, seppc >>

\* line 64: the value is integral up to 1e-4
SepSkipIntegral ==
  /\ AtPosition
  /\ IsIntegralBasic(BasicHere)
  /\ Fractionality(SolValOf(BasicHere)) < FracThreshold
  /\ basispos' = basispos + 1
  /\ invstatus' = "NotCalled"
  /\ UNCHANGED << qpvars, lpvars, basisinds, row_value, col_value,
                  rowWeights, lpAggregator, cuts, seppc >>

\* lines 65-67: getBasisInverseRow fails
SepSkipNoRow ==
  /\ AtPosition
  /\ IsIntegralBasic(BasicHere)
  /\ ~(Fractionality(SolValOf(BasicHere)) < FracThreshold)
  /\ basispos' = basispos + 1
  /\ invstatus' = "Error"
  /\ UNCHANGED << qpvars, lpvars, basisinds, row_value, col_value,
                  rowWeights, lpAggregator, cuts, seppc >>

\* lines 65-86: the row of the basis inverse is aggregated and cut twice
SepCut ==
  /\ AtPosition
  /\ IsIntegralBasic(BasicHere)
  /\ ~(Fractionality(SolValOf(BasicHere)) < FracThreshold)
  /\ invstatus' = "OK"
  /\ \E w \in [SepRows -> WeightVals] :
       LET agg == AddRows(lpAggregator, w)
       IN /\ rowWeights' = w
          /\ cuts' = cuts \o
               << [pos |-> basispos,
                   row |-> GetCurrentAggregation(agg, FALSE), rhs |-> 0],
                  [pos |-> basispos,
                   row |-> GetCurrentAggregation(agg, TRUE), rhs |-> 0] >>
          /\ lpAggregator' = Cleared(agg)
  /\ basispos' = basispos + 1
  /\ UNCHANGED << qpvars, lpvars, basisinds, row_value, col_value, seppc >>

\* line 48: the loop ends after the last basis position
SepReturn ==
  /\ seppc = "loop"
  /\ basispos = Len(basisinds)
  /\ seppc' = "done"
  /\ UNCHANGED << qpvars, lpvars, basisinds, row_value, col_value, basispos,
                  invstatus, rowWeights, lpAggregator, cuts >>

QpInit ==
  /\ pc = "crash"
  /\ status = "NOTSET"
  /\ iterationlimit \in -1 .. MaxIterLimit
  /\ x0 \in CrashPoints
  /\ \E b \in CrashBases :
       /\ b0 = b.act
       /\ active = b.act
       /\ inactive = b.inact
       /\ basisstatus = b.st
       /\ indexinfactor = InitialSlots(b.act, b.inact)
  /\ primal = ZeroVec(Vars)
  /\ rowactivity = ZeroVec(Cons)
  /\ dualcon = ZeroVec(Cons)
  /\ dualvar = ZeroVec(Vars)
  /\ num_iterations = 0
  /\ stat_iteration = << >>
  /\ stat_nullspacedimension = << >>
  /\ nfired = 0
  /\ clock = 0
  /\ atfsep = FALSE
  /\ factordim = 0
  /\ redgrad = << >>
  /\ lambda = ZeroVec(Slots)
  /\ rcfresh = FALSE
  /\ p = ZeroVec(Vars)
  /\ rowmove = ZeroVec(Cons)
  /\ maxsteplength = 1
  /\ zero_curvature_direction = FALSE
  /\ minidx = NoConstraint
  /\ stepres = NoStep
  /\ buffer_d = ZeroVec(Slots)
  /\ pdotg = 0
  /\ curvature = 0
  /\ dobj = 0
  /\ run = 1
  /\ ops = << >>
  /\ called = {}
  /\ nbody = 0
  /\ raystep = FALSE

Init == QpInit /\ LpCheckpointInit /\ SepParked

(***************************************************************************)
(* Lines 22-30: solve().  computestartingpoint either reports an           *)
(* infeasible instance through runtime.status or delivers the crash        *)
(* solution (x0 with its row activity, b0 with its statuses), from which   *)
(* the Basis is built and solve(x0, ra, basis) is entered.                 *)
(***************************************************************************)
\* variant of line 25 that never returns early
InfeasibleReturnNever(st) == FALSE
\* line 25
InfeasibleReturn(st) == st = "INFEASIBLE"
\* the statuses computestartingpoint leaves in runtime.status
StartingPointStatus == {"NOTSET", "INFEASIBLE"}

SolveInfeasible ==
  /\ pc = "crash"
  /\ \E st \in StartingPointStatus :
       /\ InfeasibleReturn(st)
       /\ status' = st
  /\ pc' = "returned"
  /\ called' = called \cup {"computestartingpoint"}
  /\ UNCHANGED << mipvars, run, objvars, localvars, inputvars, pointvars, dualvars,
                  num_iterations, statvars, clock, atfsep, basisvars,
                  factordim, redgrad, lambda, rcfresh, dirvars, ops, nbody,
                  raystep >>

SolveStart ==
  /\ pc = "crash"
  /\ \E st \in StartingPointStatus :
       /\ ~InfeasibleReturn(st)
       /\ status' = st
  /\ pc' = "entry"
  /\ called' = called \cup {"computestartingpoint", "basis_construct"}
  /\ UNCHANGED << mipvars, run, objvars, localvars, inputvars, pointvars, dualvars,
                  num_iterations, statvars, clock, atfsep, basisvars,
                  factordim, redgrad, lambda, rcfresh, dirvars, ops, nbody,
                  raystep >>

(***************************************************************************)
(* Lines 178-206: entry of solve(x0, ra, b0).  The reduced gradient        *)
(* Z^T g at x0 has one entry per null-space slot.                          *)
(***************************************************************************)
RgVals == {0, 1}
RECURSIVE SeqsOf(_, _)
SeqsOf(S, n) ==
  IF n <= 0 THEN {<< >>}
  ELSE {Append(q, x) : q \in SeqsOf(S, n - 1), x \in S}
\* the reduced gradient Z^T g at x0: any value in the first solve; in a
\* solve restarted from its own result, the value the first solve ended with
EntryRedgrad ==
  IF run = 1 THEN SeqsOf(RgVals, NumVar - Len(active)) ELSE {redgrad}
\* variant of line 206 that starts every solve at a vertex
InitialPhaseAlways(numactive) == TRUE
\* line 206
InitialPhase(numactive) == numactive = NumVar

SolveEntry ==
  /\ pc = "entry"
  /\ primal' = x0
  /\ rowactivity' = MatVec(x0)
  /\ factordim' = NumVar - Len(active)
  /\ redgrad' \in EntryRedgrad
  /\ atfsep' = InitialPhase(Len(active))
  /\ pc' = "loop"
  /\ UNCHANGED << mipvars, run, objvars, localvars, status, inputvars, dualvars, num_iterations, statvars,
                  clock, basisvars, lambda, rcfresh, dirvars, ops, called,
                  nbody, raystep >>

(***************************************************************************)
(* Lines 207-227: top of the loop.                                         *)
(***************************************************************************)
IterationLimitReached == num_iterations >= iterationlimit
TimeLimitReached == clock >= TimeLimit
\* variant of lines 209-218 that reads the clock first
LoopCheckTimeFirst ==
  IF TimeLimitReached THEN "TIMELIMIT"
  ELSE IF IterationLimitReached THEN "ITERATIONLIMIT"
  ELSE "NOTSET"
\* lines 209-218: the status the two checks give, "NOTSET" when neither fires
LoopCheck ==
  IF IterationLimitReached THEN "ITERATIONLIMIT"
  ELSE IF TimeLimitReached THEN "TIMELIMIT"
  ELSE "NOTSET"
\* variant of lines 211 and 217 without the break
BreakTargetContinue == "direction"
\* lines 211 and 217: break leaves the loop
BreakTarget == "post"
\* variant of line 227 that does not count
NextIterationCountStuck(n) == n
\* line 227
NextIterationCount(n) == n + 1
\* variant of lines 221-223 that reports in every iteration
ReportDueAlways == TRUE
\* lines 221-223
ReportDue == num_iterations % ReportingFrequency = 0

\* lines 34-47 and the fire that follows each snapshot
LogAndFire ==
  /\ stat_iteration' = Append(stat_iteration, num_iterations)
  /\ stat_nullspacedimension' =
       Append(stat_nullspacedimension, NumVar - Len(active))
  /\ nfired' = nfired + 1

IterationLimitHit ==
  /\ pc = "loop"
  /\ LoopCheck = "ITERATIONLIMIT"
  /\ status' = "ITERATIONLIMIT"
  /\ pc' = BreakTarget
  /\ ops' = << "iterlimit_check" >>
  /\ called' = called \cup {"iterlimit_check"}
  /\ UNCHANGED << mipvars, run, objvars, localvars, inputvars, pointvars, dualvars, num_iterations, statvars,
                  clock, atfsep, basisvars, factordim, redgrad, lambda,
                  rcfresh, dirvars, nbody, raystep >>

TimeLimitHit ==
  /\ pc = "loop"
  /\ LoopCheck = "TIMELIMIT"
  /\ status' = "TIMELIMIT"
  /\ pc' = BreakTarget
  /\ ops' = << "iterlimit_check", "timelimit_check" >>
  /\ called' = called \cup {"iterlimit_check", "timelimit_check"}
  /\ UNCHANGED << mipvars, run, objvars, localvars, inputvars, pointvars, dualvars, num_iterations, statvars,
                  clock, atfsep, basisvars, factordim, redgrad, lambda,
                  rcfresh, dirvars, nbody, raystep >>

EnterBody ==
  /\ pc = "loop"
  /\ LoopCheck = "NOTSET"
  /\ IF ReportDue
       THEN /\ LogAndFire
            /\ ops' = << "iterlimit_check", "timelimit_check", "log", "fire" >>
            /\ called' = called \cup {"iterlimit_check", "timelimit_check",
                                      "log", "fire"}
       ELSE /\ UNCHANGED statvars
            /\ ops' = << "iterlimit_check", "timelimit_check" >>
            /\ called' = called \cup {"iterlimit_check", "timelimit_check"}
  /\ num_iterations' = NextIterationCount(num_iterations)
  /\ nbody' = nbody + 1
  /\ zero_curvature_direction' = FALSE
  /\ maxsteplength' = 1
  /\ pc' = "direction"
  /\ UNCHANGED << mipvars, run, objvars, localvars, status, inputvars, pointvars, dualvars, clock, atfsep,
                  basisvars, factordim, redgrad, lambda, rcfresh, p, rowmove,
                  raystep >>

\* the wall clock advances; it is read at the top of the loop only
Tick ==
  /\ pc = "loop"
  /\ clock < MaxClock
  /\ clock' = clock + 1
  /\ UNCHANGED << mipvars, run, objvars, localvars, pc, status, inputvars, pointvars, dualvars, num_iterations,
                  statvars, atfsep, basisvars, factordim, redgrad, lambda,
                  rcfresh, dirvars, ops, called, nbody, raystep >>

(***************************************************************************)
(* Basis (contract of section 4.1): deactivate moves an index from the     *)
(* active list to the inactive list and keeps its factor slot; activate    *)
(* appends the new index to the active list with its status, gives it the  *)
(* factor slot of the inactive index it replaces and drops that one.       *)
(***************************************************************************)
Deactivate(b, conid) ==
  [act |-> Remove(b.act, conid),
   inact |-> Append(b.inact, conid),
   st |-> [b.st EXCEPT ![conid] = "Default"],
   slot |-> b.slot]

Activate(b, conid, newstatus, nonactivetoremove) ==
  [act |-> Append(b.act, conid),
   inact |-> Remove(b.inact, nonactivetoremove),
   st |-> [b.st EXCEPT ![conid] = newstatus],
   slot |-> [e \in Indices |->
               IF e = conid THEN b.slot[nonactivetoremove]
               ELSE IF e = nonactivetoremove THEN -1
               ELSE b.slot[e]]]

CurBasis == [act |-> active, inact |-> inactive, st |-> basisstatus,
             slot |-> indexinfactor]
SetBasis(b) ==
  /\ active' = b.act
  /\ inactive' = b.inact
  /\ basisstatus' = b.st
  /\ indexinfactor' = b.slot

(***************************************************************************)
(* Pricing (contract of section 4.4): -1 when no active index has a        *)
(* reduced cost of the wrong sign, else one of those indices.              *)
(***************************************************************************)
Violates(e, st, lam, slot) ==
  /\ slot[e] # -1
  /\ \/ st[e] = "ActiveAtLower" /\ lam[slot[e]] < 0
     \/ st[e] = "ActiveAtUpper" /\ lam[slot[e]] > 0
PriceResults(lam) ==
  LET viol == {e \in Range(active) :
                 Violates(e, basisstatus, lam, indexinfactor)}
  IN IF viol = {} THEN {NoConstraint} ELSE viol

\* ReducedCosts::getReducedCosts: the value computed by the last update();
\* only the slots of active indices carry a reduced cost
ReducedCostValues ==
  IF rcfresh THEN {lambda}
  ELSE {l \in [Slots -> -1 .. 1] :
          \A s \in Slots :
            (\A e \in Range(active) : indexinfactor[e] # s) => l[s] = 0}

(***************************************************************************)
(* Lines 49-57: tidyup.                                                    *)
(***************************************************************************)
TidyP(pp, act) ==
  [j \in Vars |-> IF (j + NumCon) \in Range(act) THEN 0 ELSE pp[j]]
TidyRowmove(rm, act) ==
  [i \in Cons |-> IF i \in Range(act) THEN 0 ELSE rm[i]]

(***************************************************************************)
(* Lines 101-126: computesearchdirection_major.  yp is the btran of the    *)
(* unit vector, zv the vector Zprod returns, gdot = gradient . yp.         *)
(***************************************************************************)
Scale(v, c) == [j \in DOMAIN v |-> c * v[j]]
SaxpyAB(pp, a, b, x) == [j \in DOMAIN pp |-> a * pp[j] + b * x[j]]
SearchDirectionMajor(numactive, yp, zv, gdot) ==
  IF numactive < NumVar
    THEN IF gdot < 0 THEN SaxpyAB(zv, -1, 1, yp)
         ELSE SaxpyAB(zv, -1, -1, yp)
    ELSE Scale(yp, -gdot)

(***************************************************************************)
(* Lines 128-142: computemaxsteplength on denominator = p^T Q p and        *)
(* numerator = -(p . gradient); returns the step and the flag.             *)
(***************************************************************************)
\* variant of lines 131-137 without the test of the sign of the numerator
ComputeMaxStepLengthUnsigned(denominator, numerator, zcd) ==
  IF Abs(denominator) > CurvatureThreshold
    THEN [len |-> numerator \div denominator, zcd |-> zcd]
    ELSE [len |-> Inf, zcd |-> TRUE]
ComputeMaxStepLength(denominator, numerator, zcd) ==
  IF Abs(denominator) > CurvatureThreshold
    THEN [len |-> IF numerator < 0 THEN 0 ELSE numerator \div denominator,
          zcd |-> zcd]
    ELSE [len |-> Inf, zcd |-> TRUE]

\* btran of the unit vector of the leaving index: the leaving constraint
\* moves by one, the other active constraints do not move
YpSet(leaving) ==
  {v \in DirSet :
     /\ Dot(RowOf(leaving), v) = 1
     /\ \A e \in Range(active) \ {leaving} : Dot(RowOf(e), v) = 0}
\* Zprod results: vectors of the null space of the active constraints
ZvSet == {ZeroVec(Vars)} \cup NullDirs(Range(active))
AllZero(q) == \A i \in 1 .. Len(q) : q[i] = 0
\* (Z v) . gradient = v . (Z^T gradient): zero on a stationary face
ZgSet(zv) ==
  IF zv = ZeroVec(Vars) \/ AllZero(redgrad) THEN {0} ELSE -2 .. 2
\* p . gradient for the direction of lines 116-123
PDotG(numactive, zg, gdot) ==
  IF numactive < NumVar
    THEN IF gdot < 0 THEN gdot - zg ELSE (0 - gdot) - zg
    ELSE (0 - gdot) * gdot

\* variant of line 231 that prices in every iteration
AtVertexBranchAlways == TRUE
\* line 231: the branch taken by the loop body
AtVertexBranch == atfsep

(***************************************************************************)
(* Lines 231-237: pricing finds no index.                                  *)
(***************************************************************************)
PriceOptimal ==
  /\ pc = "direction"
  /\ AtVertexBranch
  /\ \E lam \in ReducedCostValues :
       /\ NoConstraint \in PriceResults(lam)
       /\ lambda' = lam
  /\ minidx' = NoConstraint
  /\ rcfresh' = TRUE
  /\ status' = "OPTIMAL"
  /\ pc' = "post"
  /\ Log(<< "price" >>)
  /\ UNCHANGED << mipvars, run, objvars, stepres, buffer_d, inputvars, pointvars, dualvars, num_iterations, statvars,
                  clock, atfsep, basisvars, factordim, redgrad, dirvars,
                  nbody, raystep >>

\* variant of line 254 that expands the factor for every direction
ExpandFactorAlways(zcd) == TRUE
\* line 254: the factor is expanded unless the curvature is zero
ExpandFactor(zcd) == ~zcd
\* variant of line 257 that skips the expand when the curvature is zero
ExpandRedgradUnlessZcd(zcd) == ~zcd
\* line 257: the reduced gradient is expanded for every direction
ExpandRedgrad(zcd) == TRUE

(***************************************************************************)
(* Lines 231-257: a major iteration.                                       *)
(***************************************************************************)
Major ==
  /\ pc = "direction"
  /\ AtVertexBranch
  /\ \E lam \in ReducedCostValues :
     \E mi \in PriceResults(lam) \ {NoConstraint} :
     \E yp \in YpSet(mi) :
     \E zv \in ZvSet :
     \E zg \in ZgSet(zv) :
     \E denominator \in 0 .. 1 :
       LET unit == indexinfactor[mi]
           gdot == lam[unit]
           numactive == Len(active)
           p0 == SearchDirectionMajor(numactive, yp, zv, gdot)
           nb == Deactivate(CurBasis, mi)
           p1 == TidyP(p0, nb.act)
           rm == TidyRowmove(MatVec(p0), nb.act)
           numerator == 0 - PDotG(numactive, zg, gdot)
           msl == ComputeMaxStepLength(denominator, numerator,
                                       zero_curvature_direction)
       IN /\ p0 \in DirSet
          /\ lambda' = lam
          /\ minidx' = mi
          /\ SetBasis(nb)
          /\ p' = p1
          /\ rowmove' = rm
          /\ maxsteplength' = msl.len
          /\ pdotg' = 0 - numerator
          /\ curvature' = denominator
          /\ zero_curvature_direction' = msl.zcd
          /\ factordim' = IF ExpandFactor(msl.zcd) THEN factordim + 1
                          ELSE factordim
          /\ redgrad' = IF ExpandRedgrad(msl.zcd) THEN Append(redgrad, gdot)
                        ELSE redgrad
          /\ Log(<< "price", "btran", "searchdir_major", "deactivate",
                    "rowmove", "tidyup", "maxsteplength" >>
                 \o (IF ExpandFactor(msl.zcd) THEN << "factor_expand" >>
                     ELSE << >>)
                 \o (IF ExpandRedgrad(msl.zcd) THEN << "redgrad_expand" >>
                     ELSE << >>))
  /\ rcfresh' = TRUE
  /\ pc' = "step"
  /\ UNCHANGED << mipvars, run, dobj, stepres, buffer_d, status, inputvars, pointvars, dualvars, num_iterations,
                  statvars, clock, atfsep, nbody, raystep >>

(***************************************************************************)
(* Lines 258-262 and 88-98: a minor iteration.  The direction is zero      *)
(* exactly when the reduced gradient is, and lies in the null space of the *)
(* active constraints.                                                     *)
(***************************************************************************)
\* the minor direction p = -Z (Z^T Q Z)^-1 Z^T g has p . g = -(p^T Q p),
\* positive curvature unless it is zero
NewtonCurvature(p0) == IF p0 = ZeroVec(Vars) THEN 0 ELSE 1
MinorDirections ==
  IF AllZero(redgrad) THEN {ZeroVec(Vars)} ELSE NullDirs(Range(active))

Minor ==
  /\ pc = "direction"
  /\ ~AtVertexBranch
  /\ \E p0 \in MinorDirections :
       /\ p' = TidyP(p0, active)
       /\ rowmove' = TidyRowmove(MatVec(p0), active)
       /\ curvature' = NewtonCurvature(p0)
       /\ pdotg' = 0 - NewtonCurvature(p0)
  /\ pc' = "step"
  /\ Log(<< "searchdir_minor", "rowmove", "tidyup" >>)
  /\ UNCHANGED << mipvars, run, dobj, localvars, status, inputvars, pointvars, dualvars, num_iterations,
                  statvars, clock, atfsep, basisvars, factordim, redgrad,
                  lambda, rcfresh, maxsteplength, zero_curvature_direction,
                  nbody, raystep >>

(***************************************************************************)
(* Ratio test (contract of section 4.5): the largest alpha in              *)
(* [0, maxsteplength] that keeps primal and row activity within their      *)
(* bounds; a constraint blocks when it is reached strictly before          *)
(* maxsteplength.  Ties are resolved by the strategy; the model allows     *)
(* every tied constraint.                                                  *)
(***************************************************************************)
MoveOf(e, pp, rm) == IF e < NumCon THEN rm[e] ELSE pp[e - NumCon]
BlockingBound(e, pp, rm) == IF MoveOf(e, pp, rm) > 0 THEN UpOf(e) ELSE LoOf(e)
Candidates(x, pp, ra, rm) ==
  {e \in Indices :
     /\ MoveOf(e, pp, rm) # 0
     /\ IsFinite(ValueAt(e, x, ra))
     /\ IsFinite(BlockingBound(e, pp, rm))}
StepTo(e, x, pp, ra, rm) ==
  Abs(BlockingBound(e, pp, rm) - ValueAt(e, x, ra)) \div Abs(MoveOf(e, pp, rm))
Ratiotest(x, pp, ra, rm, maxstep) ==
  LET cand == Candidates(x, pp, ra, rm)
      first == {e \in cand :
                  /\ StepTo(e, x, pp, ra, rm) < maxstep
                  /\ \A f \in cand :
                       StepTo(e, x, pp, ra, rm) <= StepTo(f, x, pp, ra, rm)}
  IN IF first = {}
       THEN {[alpha |-> maxstep, limitingconstraint |-> NoConstraint,
              nowactiveatlower |-> FALSE]}
       ELSE {[alpha |-> StepTo(e, x, pp, ra, rm), limitingconstraint |-> e,
              nowactiveatlower |-> MoveOf(e, pp, rm) < 0] : e \in first}

(***************************************************************************)
(* Lines 144-176: reduce.  d is the vector Ztprod returns (one entry per   *)
(* inactive slot); the scan of lines 159-165 visits its non-zero entries   *)
(* in index order.                                                         *)
(***************************************************************************)
UnitVec(n, idx) == [i \in 0 .. n - 1 |-> IF i = idx THEN 1 ELSE 0]
NonZeroIndex(d) == SortedSeq({i \in DOMAIN d : d[i] # 0})
RECURSIVE MaxAbsScan(_, _, _)
MaxAbsScan(d, nz, maxabsd) ==
  IF nz = << >> THEN maxabsd
  ELSE MaxAbsScan(d, Tail(nz),
                  IF Abs(d[Head(nz)]) > Abs(d[maxabsd]) THEN Head(nz)
                  ELSE maxabsd)
\* variant of line 167 that never aborts
DeadEndTestNever(dmax) == FALSE
\* line 167
DeadEndTest(dmax) == Abs(dmax) < DZeroThreshold
\* variant of lines 144-176 that always names the entering constraint as
\* the one to drop
ReduceDropsEntering(inact, newactivecon, ztaq) ==
  LET idx == IndexOf(inact, newactivecon)
      maxabsd == MaxAbsScan(ztaq, NonZeroIndex(ztaq), 0)
  IN IF idx # -1
       THEN [maxabsd |-> idx, constrainttodrop |-> newactivecon,
             d |-> UnitVec(Len(inact), idx), exit |-> FALSE]
       ELSE [maxabsd |-> maxabsd, constrainttodrop |-> newactivecon,
             d |-> ztaq, exit |-> DeadEndTest(ztaq[maxabsd])]
Reduce(inact, newactivecon, ztaq) ==
  LET idx == IndexOf(inact, newactivecon)
      maxabsd == MaxAbsScan(ztaq, NonZeroIndex(ztaq), 0)
  IN IF idx # -1
       THEN [maxabsd |-> idx, constrainttodrop |-> newactivecon,
             d |-> UnitVec(Len(inact), idx), exit |-> FALSE]
       ELSE [maxabsd |-> maxabsd, constrainttodrop |-> inact[maxabsd + 1],
             d |-> ztaq, exit |-> DeadEndTest(ztaq[maxabsd])]
\* Ztprod(a_q): any small vector; it is not computed when a_q is inactive
ZtprodResults(inact, newactivecon) ==
  IF IndexOf(inact, newactivecon) # -1 THEN {UnitVec(Len(inact), 0)}
  ELSE [0 .. Len(inact) - 1 -> -1 .. 1]

(***************************************************************************)
(* Lines 264-266: no direction or no step: flip to AtVertex.               *)
(***************************************************************************)
\* twice f(x + alpha p) - f(x) = 2 alpha (p . g) + alpha^2 (p^T Q p)
ObjChange2(alpha, gp, ptqp) == 2 * alpha * gp + alpha * alpha * ptqp
\* variant of line 264 that tests the norm of the direction only
NoMoveNormOnly == Norm2(p) < PnormZeroThreshold
\* line 264
NoMove == Norm2(p) < PnormZeroThreshold \/ maxsteplength = 0

Flip ==
  /\ pc = "step"
  /\ NoMove
  /\ atfsep' = TRUE
  /\ pc' = "loop"
  /\ UNCHANGED << mipvars, run, objvars, localvars, status, inputvars, pointvars, dualvars, num_iterations,
                  statvars, clock, basisvars, factordim, redgrad, lambda,
                  rcfresh, dirvars, ops, called, nbody, raystep >>

(***************************************************************************)
(* Lines 272-288 with exit(1) of line 172.                                 *)
(***************************************************************************)
DeadEnd ==
  /\ pc = "step"
  /\ ~NoMove
  /\ \E res \in Ratiotest(primal, p, rowactivity, rowmove, maxsteplength) :
       /\ res.limitingconstraint # NoConstraint
       /\ \E ztaq \in ZtprodResults(inactive, res.limitingconstraint) :
            /\ Reduce(inactive, res.limitingconstraint, ztaq).exit
            /\ buffer_d' = ztaq
       /\ stepres' = res
  /\ pc' = "exit"
  /\ Log(<< "ratiotest", "reduce", "exit" >>)
  /\ UNCHANGED << mipvars, run, objvars, minidx, status, inputvars, pointvars, dualvars, num_iterations,
                  statvars, clock, atfsep, basisvars, factordim, redgrad,
                  lambda, rcfresh, dirvars, nbody, raystep >>

(***************************************************************************)
(* Lines 268-291 and 302-306: a blocking constraint enters the basis.      *)
(***************************************************************************)
\* variant of lines 286-287 with the two statuses exchanged
NewStatusSwapped(nowactiveatlower) ==
  IF nowactiveatlower THEN "ActiveAtUpper" ELSE "ActiveAtLower"
\* lines 286-287
NewStatus(nowactiveatlower) ==
  IF nowactiveatlower THEN "ActiveAtLower" ELSE "ActiveAtUpper"
PhaseAfterActivate(numactive, phase) ==
  IF numactive # NumVar THEN FALSE ELSE phase

Blocked ==
  /\ pc = "step"
  /\ ~NoMove
  /\ \E res \in Ratiotest(primal, p, rowactivity, rowmove, maxsteplength) :
       /\ res.limitingconstraint # NoConstraint
       /\ \E ztaq \in ZtprodResults(inactive, res.limitingconstraint) :
            LET r == Reduce(inactive, res.limitingconstraint, ztaq)
                nb == Activate(CurBasis, res.limitingconstraint,
                               NewStatus(res.nowactiveatlower),
                               r.constrainttodrop)
            IN /\ ~r.exit
               /\ buffer_d' = r.d
               /\ stepres' = res
               /\ dobj' = ObjChange2(res.alpha, pdotg, curvature)
               /\ factordim' = IF zero_curvature_direction THEN factordim
                               ELSE factordim - 1
               /\ redgrad' \in SeqsOf(RgVals, Len(redgrad) - 1)
               /\ SetBasis(nb)
               /\ atfsep' = PhaseAfterActivate(Len(nb.act), atfsep)
               /\ primal' = Saxpy(primal, res.alpha, p)
               /\ rowactivity' = Saxpy(rowactivity, res.alpha, rowmove)
               /\ Log(<< "ratiotest", "reduce" >>
                      \o (IF zero_curvature_direction THEN << >>
                          ELSE << "factor_reduce" >>)
                      \o << "redgrad_reduce", "redgrad_update", "activate",
                            "gradient_update", "redcosts_update",
                            "primal_saxpy", "rowactivity_saxpy" >>)
  /\ lambda' = ZeroVec(Slots)
  /\ rcfresh' = FALSE
  /\ pc' = "loop"
  /\ UNCHANGED << mipvars, run, pdotg, curvature, minidx, status, inputvars, dualvars, num_iterations, statvars,
                  clock, dirvars, nbody, raystep >>

(***************************************************************************)
(* Lines 292-306: no constraint blocks.  Line 293 compares the limiting    *)
(* constraint with infinity.                                               *)
(***************************************************************************)
UnboundedTest(limitingconstraint) == limitingconstraint = Inf

Unblocked ==
  /\ pc = "step"
  /\ ~NoMove
  /\ \E res \in Ratiotest(primal, p, rowactivity, rowmove, maxsteplength) :
       /\ res.limitingconstraint = NoConstraint
       /\ stepres' = res
       /\ dobj' = ObjChange2(res.alpha, pdotg, curvature)
       /\ status' = IF UnboundedTest(res.limitingconstraint) THEN "UNBOUNDED"
                    ELSE status
       /\ redgrad' = IF res.alpha = Inf THEN redgrad
                     ELSE [i \in 1 .. Len(redgrad) |-> 0]
       /\ primal' = Saxpy(primal, res.alpha, p)
       /\ rowactivity' = Saxpy(rowactivity, res.alpha, rowmove)
       /\ raystep' = (raystep \/ res.alpha = Inf)
  /\ atfsep' = TRUE
  /\ lambda' = ZeroVec(Slots)
  /\ rcfresh' = FALSE
  /\ pc' = "loop"
  /\ Log(<< "ratiotest", "redgrad_update", "gradient_update",
            "redcosts_update", "primal_saxpy", "rowactivity_saxpy" >>)
  /\ UNCHANGED << mipvars, run, pdotg, curvature, minidx, buffer_d, inputvars, dualvars, num_iterations, statvars, clock,
                  basisvars, factordim, dirvars, nbody >>

(***************************************************************************)
(* Lines 310-329: final snapshot, dual recovery, recomputex.               *)
(***************************************************************************)
\* Basis::recomputex: the point where every active index sits at the bound
\* its status names.  Variable bounds fix their variable; a row with one
\* unknown variable left fixes that one.
RECURSIVE Propagate(_, _, _)
Propagate(x, rows, st) ==
  LET unknown(i) == {j \in Vars : A(i, j) # 0 /\ x[j] = NaN}
      ready == {i \in rows : Cardinality(unknown(i)) = 1}
  IN IF ready = {} THEN x
     ELSE LET i == CHOOSE r \in ready : TRUE
              j == CHOOSE v \in unknown(i) : TRUE
              rest == SumOver(Vars \ {j}, [k \in Vars |-> A(i, k) * x[k]])
          IN Propagate([x EXCEPT ![j] = (BoundOf(i, st[i]) - rest) \div A(i, j)],
                       rows \ {i}, st)
Recomputex(act, st) ==
  Propagate([j \in Vars |-> IF (j + NumCon) \in Range(act)
                              THEN BoundOf(j + NumCon, st[j + NumCon])
                              ELSE NaN],
            {e \in Range(act) : e < NumCon}, st)

\* variant of line 321 with the sign of the multiplier reversed
DualConNegated(lam) ==
  [i \in Cons |-> IF i \in Range(active) THEN 0 - lam[indexinfactor[i]]
                  ELSE dualcon[i]]
\* lines 313-323
DualCon(lam) ==
  [i \in Cons |-> IF i \in Range(active) THEN lam[indexinfactor[i]]
                  ELSE dualcon[i]]
DualVar(lam) ==
  [j \in Vars |-> IF (j + NumCon) \in Range(active)
                    THEN lam[indexinfactor[j + NumCon]]
                  ELSE dualvar[j]]
\* variant of lines 325-327 that recomputes the point on every face
FinalPrimalRecomputed == Recomputex(active, basisstatus)
\* lines 325-327
FinalPrimal ==
  IF Len(active) = NumVar THEN Recomputex(active, basisstatus) ELSE primal

Finish ==
  /\ pc = "post"
  /\ LogAndFire
  /\ \E lam \in ReducedCostValues :
       /\ lambda' = lam
       /\ dualcon' = DualCon(lam)
       /\ dualvar' = DualVar(lam)
  /\ rcfresh' = TRUE
  /\ primal' = FinalPrimal
  /\ pc' = "done"
  /\ Log(<< "log", "fire", "duals" >>
         \o (IF Len(active) = NumVar THEN << "recomputex" >> ELSE << >>))
  /\ UNCHANGED << mipvars, run, objvars, localvars, status, inputvars, rowactivity, num_iterations, clock,
                  atfsep, basisvars, factordim, redgrad, dirvars, nbody,
                  raystep >>

(***************************************************************************)
(* The caller solves again from the result of an Optimal solve: the crash  *)
(* start is the returned point with the final basis, on a fresh Runtime.   *)
(* Gradient, reduced gradient and reduced costs are functions of the point *)
(* and the basis, so they start with the values the first solve ended on.  *)
(***************************************************************************)
Resolve ==
  /\ pc = "done"
  /\ status = "OPTIMAL"
  /\ run = 1
  /\ run' = 2
  /\ x0' = primal
  /\ b0' = active
  /\ pc' = "entry"
  /\ status' = "NOTSET"
  /\ primal' = ZeroVec(Vars)
  /\ rowactivity' = ZeroVec(Cons)
  /\ dualcon' = ZeroVec(Cons)
  /\ dualvar' = ZeroVec(Vars)
  /\ num_iterations' = 0
  /\ nbody' = 0
  /\ stat_iteration' = << >>
  /\ stat_nullspacedimension' = << >>
  /\ nfired' = 0
  /\ clock' = 0
  /\ atfsep' = FALSE
  /\ factordim' = 0
  /\ p' = ZeroVec(Vars)
  /\ rowmove' = ZeroVec(Cons)
  /\ maxsteplength' = 1
  /\ zero_curvature_direction' = FALSE
  /\ minidx' = NoConstraint
  /\ stepres' = NoStep
  /\ buffer_d' = ZeroVec(Slots)
  /\ pdotg' = 0
  /\ curvature' = 0
  /\ dobj' = 0
  /\ ops' = << >>
  /\ called' = {}
  /\ UNCHANGED << mipvars, iterationlimit, basisvars, redgrad, lambda, rcfresh,
                  raystep >>

Next ==
  \/ SolveInfeasible
  \/ SolveStart
  \/ SolveEntry
  \/ IterationLimitHit
  \/ TimeLimitHit
  \/ EnterBody
  \/ PriceOptimal
  \/ Major
  \/ Minor
  \/ Flip
  \/ DeadEnd
  \/ Blocked
  \/ Unblocked
  \/ Finish
  \/ Tick
  \/ Resolve

Spec == Init /\ [][Next]_vars

\* the scheduler keeps running the solve until it has ended
FairSpec == Spec /\ WF_vars(Next)

(***************************************************************************)
(* The basis checkpoint of the LP relaxation under any sequence of calls,  *)
(* with the QP solver not started.                                         *)
(***************************************************************************)
QpParked ==
  /\ QpInit
  /\ iterationlimit = 0
  /\ x0 = CHOOSE x \in CrashPoints : TRUE
  /\ b0 = << >>
  /\ basisstatus = [e \in Indices |-> "Default"]
  /\ inactive = << 0, 1 >>
LpInit == QpParked /\ LpCheckpointInit /\ SepParked
LpNext ==
  \/ StoreBasis
  \/ GetStoredBasis
  \/ SetStoredBasis
  \/ LpBasisChanges
LpSpec == LpInit /\ [][LpNext]_vars

(***************************************************************************)
(* One call of separateLpSolution on any basis and LP solution.            *)
(***************************************************************************)
SepSpecInit == QpParked /\ LpCheckpointInit /\ SepInit
SepNext ==
  \/ SepSkipContinuous
  \/ SepSkipIntegral
  \/ SepSkipNoRow
  \/ SepCut
  \/ SepReturn
SepSpec == SepSpecInit /\ [][SepNext]_vars

(***************************************************************************)
(* Properties                                                              *)
(***************************************************************************)
TopOps == {"iterlimit_check", "timelimit_check", "log", "fire"}
PricedNow == pc = "direction" /\ Len(ops') > Len(ops)
             /\ ops'[Len(ops) + 1] = "price"
ReducedNow == "reduce" \in Range(ops') /\ "reduce" \notin Range(ops)
Count(seq, x) == Cardinality({i \in 1 .. Len(seq) : seq[i] = x})
Returned == pc \in {"post", "done"}

\* C1: once a step has been taken that no constraint blocks and whose step
\* length is infinite, the solve has left the loop with status Unbounded
C1_RayEndsUnbounded == raystep => (status = "UNBOUNDED" /\ Returned)

\* C2: status becomes Optimal exactly in the step in which pricing returns
\* no index; that step is taken in an AtVertex iteration, is preceded in its
\* iteration by the limit checks and the report only, leaves the loop and
\* changes neither the point, the row activity, the basis, the factor nor
\* the reduced gradient
C2_OptimalOnlyFromPricing ==
  [][/\ (status' = "OPTIMAL" /\ status # "OPTIMAL")
          <=> (PricedNow /\ minidx' = NoConstraint)
     /\ PricedNow => atfsep
     /\ (status' = "OPTIMAL" /\ status # "OPTIMAL")
          => /\ atfsep
             /\ Range(ops) \subseteq TopOps
             /\ ops' = Append(ops, "price")
             /\ pc' = "post"
             /\ UNCHANGED << pointvars, basisvars, factordim, redgrad >> ]_vars
C2_Witness ==
  status = "OPTIMAL" /\ pc = "post" /\ minidx = NoConstraint /\ nbody = 2

\* C3: when the status is Optimal the reduced gradient is zero and no
\* active constraint has a multiplier of the sign that pricing rejects
C3_OptimalIsKKT ==
  status = "OPTIMAL"
    => /\ AllZero(redgrad)
       /\ \A e \in Range(active) :
            ~Violates(e, basisstatus, lambda, indexinfactor)

\* C4: the solve ends; the loop body has run num_iterations times, at most
\* iterationlimit times, and a solve that returns has status Optimal,
\* TimeLimit or IterationLimit, the last only with the counter at the limit
C4_Counted ==
  /\ nbody = num_iterations
  /\ iterationlimit >= 0 => nbody <= iterationlimit
  /\ Returned => status \in {"OPTIMAL", "TIMELIMIT", "ITERATIONLIMIT"}
  /\ status = "ITERATIONLIMIT" => num_iterations >= iterationlimit
C4_Terminates ==
  []C4_Counted /\ <>(pc \in {"done", "exit", "returned"})
C4_Witness ==
  pc = "done" /\ status = "ITERATIONLIMIT" /\ nbody = MaxIterLimit

\* C5 (as stated): with iterationlimit = 0 the solve returns IterationLimit
\* without pricing, ratio test, activation or deactivation, and the returned
\* primal is the crash point x0
SearchOps == {"price", "ratiotest", "activate", "deactivate"}
NoWork ==
  UNCHANGED << pointvars, dualvars, basisvars, factordim, redgrad,
               num_iterations, statvars, dirvars, atfsep >>
C6_LimitChecks ==
  [][/\ (pc = "loop" /\ pc' # "loop")
          => IF num_iterations >= iterationlimit
               THEN /\ status' = "ITERATIONLIMIT"
                    /\ pc' = "post"
                    /\ ops' = << "iterlimit_check" >>
                    /\ NoWork
             ELSE IF clock >= TimeLimit
               THEN /\ status' = "TIMELIMIT"
                    /\ pc' = "post"
                    /\ ops' = << "iterlimit_check", "timelimit_check" >>
                    /\ NoWork
             ELSE /\ status' = status
                  /\ pc' = "direction"
                  /\ SubSeq(ops', 1, 2)
                       = << "iterlimit_check", "timelimit_check" >>
                  /\ num_iterations' = num_iterations + 1
     /\ Count(ops', "iterlimit_check") <= 1
     /\ Count(ops', "timelimit_check") <= 1
     /\ ops' # << >> => ops'[1] = "iterlimit_check"]_vars
C6_Witness ==
  /\ pc = "post"
  /\ status = "ITERATIONLIMIT"
  /\ clock >= TimeLimit
  /\ nbody >= 1

\* C7 (as stated): once a status other than Optimal has been set, primal,
\* dualcon and dualvar are not written again
C7_NothingWrittenAfterStatus ==
  [][(status \in {"ITERATIONLIMIT", "TIMELIMIT", "UNBOUNDED", "ERROR"})
       => (primal' = primal /\ dualcon' = dualcon /\ dualvar' = dualvar)]_vars
\* C7: after a limit has set IterationLimit or TimeLimit the one remaining
\* step is the final report with the dual recovery, which writes the duals
\* of the active indices only, replaces primal only when the active set is
\* full, and leaves status, row activity, basis, factor and reduced gradient
\* alone
C7_AfterLimitStatus ==
  [][(status \in {"ITERATIONLIMIT", "TIMELIMIT"})
       => /\ pc = "post"
          /\ pc' = "done"
          /\ UNCHANGED << status, rowactivity, basisvars, factordim,
                          redgrad, num_iterations >>
          /\ Len(active) < NumVar => primal' = primal
          /\ \A i \in Cons \ Range(active) : dualcon'[i] = dualcon[i]
          /\ \A j \in Vars :
               (j + NumCon) \notin Range(active)
                 => dualvar'[j] = dualvar[j]]_vars
C7_Witness ==
  /\ pc = "done"
  /\ status = "TIMELIMIT"
  /\ \E j \in Vars : dualvar[j] # 0

\* C8: when reduce meets a blocking constraint that is not inactive and
\* every entry of d is below the threshold, the process ends there: no
\* status is set, nothing is activated, the factor is not reduced, the point
\* does not move, and no step follows
C8_DeadEndAborts ==
  /\ [][/\ ( /\ ReducedNow
             /\ IndexOf(inactive, stepres'.limitingconstraint) = -1
             /\ \A i \in DOMAIN buffer_d' :
                  Abs(buffer_d'[i]) < DZeroThreshold )
             => /\ pc' = "exit"
                /\ ops' = ops \o << "ratiotest", "reduce", "exit" >>
                /\ UNCHANGED << status, pointvars, dualvars, basisvars,
                                factordim, redgrad, atfsep >>
        /\ pc # "exit"]_vars
  /\ [](pc = "exit"
          => /\ status = "NOTSET"
             /\ Range(ops) \cap {"activate", "factor_reduce",
                                 "primal_saxpy"} = {})
C8_Witness ==
  /\ pc = "exit"
  /\ IndexOf(inactive, stepres.limitingconstraint) = -1
  /\ \A i \in DOMAIN buffer_d : buffer_d[i] = 0

\* C9: a negative iterationlimit is rejected at entry: the solve gets no
\* further than its entry unless the status is Error and primal, dualcon and
\* dualvar are as they were
C9_NegativeLimitRejected ==
  iterationlimit < 0
    => \/ pc \in {"crash", "entry", "returned"}
       \/ /\ status = "ERROR"
          /\ primal = ZeroVec(Vars)
          /\ dualcon = ZeroVec(Cons)
          /\ dualvar = ZeroVec(Vars)

\* C10 (as stated): at the top of every loop iteration the phase is
\* AtVertex exactly when the active set has num_var members
C10_PhaseMirrorsActiveSet ==
  pc = "loop" => (atfsep <=> Len(active) = NumVar)
\* C10: at the top of the first loop iteration the phase is AtVertex exactly
\* when the active set has num_var members
C10_InitialPhase ==
  (pc = "loop" /\ nbody = 0) => (atfsep <=> Len(active) = NumVar)
C10_Witness == pc = "loop" /\ nbody = 0 /\ atfsep /\ Len(active) = NumVar

DidNow(op) == op \in Range(ops') /\ op \notin Range(ops)
NoRepeat(seq) == Cardinality(Range(seq)) = Len(seq)

\* C11: active plus inactive indices number num_var, the active set has
\* between 0 and num_var members, every active index has a factor slot of
\* its own; deactivate moves exactly one index from active to inactive and
\* activate adds exactly one active index and removes exactly one inactive
C11_Shape ==
  /\ Len(active) + Len(inactive) = NumVar
  /\ Len(active) \in 0 .. NumVar
  /\ NoRepeat(active) /\ NoRepeat(inactive)
  /\ Range(active) \cap Range(inactive) = {}
  /\ \A e \in Range(active) : indexinfactor[e] \in Slots
  /\ \A e, f \in Range(active) :
       e # f => indexinfactor[e] # indexinfactor[f]
C11_BasisCounts ==
  /\ []C11_Shape
  /\ [][/\ DidNow("deactivate")
             => \E e \in Range(active) :
                  /\ Range(active') = Range(active) \ {e}
                  /\ Range(inactive') = Range(inactive) \cup {e}
        /\ DidNow("activate")
             => \E e \in Indices \ Range(active) :
                \E f \in Range(inactive) :
                  /\ Range(active') = Range(active) \cup {e}
                  /\ Range(inactive') = Range(inactive) \ {f}
        /\ (~DidNow("deactivate") /\ ~DidNow("activate"))
             => UNCHANGED basisvars]_vars
C11_Witness ==
  /\ pc = "loop"
  /\ "activate" \in called
  /\ "deactivate" \in called
  /\ Range(active) # Range(b0)

ActiveTight == Tight(active, basisstatus, primal, rowactivity)

C15_DualRecovery ==
  [][(pc = "post" /\ pc' = "done")
       => /\ \A e \in Range(active) :
               IF e < NumCon
                 THEN dualcon'[e] = lambda'[indexinfactor[e]]
                 ELSE dualvar'[e - NumCon] = lambda'[indexinfactor[e]]
          /\ \A i \in Cons \ Range(active) : dualcon'[i] = dualcon[i]
          /\ \A j \in Vars :
               (j + NumCon) \notin Range(active) => dualvar'[j] = dualvar[j]
          /\ DidNow("recomputex") <=> Len(active) = NumVar
          /\ Len(active) < NumVar => primal' = primal
          /\ UNCHANGED << basisvars, status >>]_vars
C15_Witness ==
  /\ pc = "done"
  /\ Len(active) < NumVar
  /\ primal # x0
  /\ \E i \in Cons : i \in Range(active) /\ dualcon[i] # 0

NonDecreasing(seq) ==
  \A i \in 1 .. Len(seq) - 1 : seq[i] <= seq[i + 1]
LogThenFire(seq) ==
  /\ \A i \in 1 .. Len(seq) :
       seq[i] = "fire" => (i > 1 /\ seq[i - 1] = "log")
  /\ \A i \in 1 .. Len(seq) :
       seq[i] = "log" => (i < Len(seq) /\ seq[i + 1] = "fire")

\* C17: within a solve the callback has fired as often as snapshots were
\* taken, the statistics vectors have one length and the iteration entries
\* do not decrease; a snapshot is one entry on each vector with the callback
\* fired right after it, and it is taken exactly in the loop passes that
\* enter the body with a counter that is a multiple of reportingfrequency
\* and in the step that ends the solve
C17_SnapshotsAndCallbacks ==
  /\ [](/\ nfired = Len(stat_iteration)
        /\ Len(stat_nullspacedimension) = Len(stat_iteration)
        /\ NonDecreasing(stat_iteration)
        /\ LogThenFire(ops))
  /\ [][run' = run
          => /\ (\/ (pc = "loop" /\ pc' = "direction"
                       /\ num_iterations % ReportingFrequency = 0)
                 \/ (pc = "post" /\ pc' = "done"))
                <=> nfired' = nfired + 1
             /\ nfired' # nfired
                  => /\ nfired' = nfired + 1
                     /\ stat_iteration'
                          = Append(stat_iteration, num_iterations)
                     /\ stat_nullspacedimension'
                          = Append(stat_nullspacedimension,
                                   NumVar - Len(active))
             /\ nfired' = nfired => UNCHANGED statvars]_vars
C17_Witness ==
  /\ pc = "done"
  /\ num_iterations = 2
  /\ nfired = 2
  /\ stat_iteration = << 0, 2 >>

\* C18: after a step that activates a blocking constraint the phase is
\* AtVertex if the active set is then full and OnFace otherwise, whatever
\* the phase was before
C18_PhaseAfterActivation ==
  [][DidNow("activate") => (atfsep' <=> Len(active') = NumVar)]_vars

\* the operations of lines 268-306 that move the point or change the basis
MoveOps ==
  {"ratiotest", "reduce", "activate", "gradient_update", "redcosts_update",
   "primal_saxpy", "rowactivity_saxpy"}

\* C19: when the direction is shorter than pnorm_zero_threshold or the
\* maximum step length is 0, the phase becomes AtVertex, the ratio test is
\* not called, nothing is activated, and primal, row activity and reduced
\* costs are after the iteration what they were before it; computing the
\* direction does not move the point either
C19_FlipMovesNothing ==
  [][/\ (pc = "step" /\ (Norm2(p) < PnormZeroThreshold \/ maxsteplength = 0))
          => /\ atfsep'
             /\ pc' = "loop"
             /\ ops' = ops
             /\ Range(ops) \cap MoveOps = {}
             /\ UNCHANGED << primal, rowactivity, lambda, rcfresh, active,
                             redgrad, status >>
     /\ (pc = "direction") => UNCHANGED << primal, rowactivity >>
    ]_vars
C19_Witness ==
  /\ pc = "loop"
  /\ "maxsteplength" \in Range(ops)
  /\ "ratiotest" \notin Range(ops)
  /\ maxsteplength = 0
  /\ Norm2(p) >= PnormZeroThreshold
  /\ atfsep

\* C20 as stated: in an iteration that deactivates, the factorization expand
\* and the reduced-gradient expand are both performed when the curvature is
\* non-zero and both skipped when it is numerically zero
C20_BothExpandsFollowCurvature ==
  [][DidNow("deactivate") =>
       /\ DidNow("factor_expand") <=> ~zero_curvature_direction'
       /\ DidNow("redgrad_expand") <=> ~zero_curvature_direction'
    ]_vars

\* C20 amended: after the tentative deactivate the reduced gradient is
\* always expanded by one entry, and the factorization is expanded exactly
\* when the curvature is not numerically zero
C20_ExpandsAfterDeactivate ==
  [][DidNow("deactivate") =>
       /\ DidNow("factor_expand") <=> ~zero_curvature_direction'
       /\ factordim' = IF zero_curvature_direction' THEN factordim
                       ELSE factordim + 1
       /\ DidNow("redgrad_expand")
       /\ Len(redgrad') = Len(redgrad) + 1
    ]_vars
C20_Witness ==
  /\ pc = "step"
  /\ zero_curvature_direction
  /\ "deactivate" \in Range(ops)
  /\ "redgrad_expand" \in Range(ops)
  /\ "factor_expand" \notin Range(ops)

\* C21 as stated, last part: a blocking constraint found by the ratio test
\* of an OnFace iteration always triggers factor.reduce
C21_OnFaceBlockAlwaysReduces ==
  [][(pc = "step" /\ ~atfsep /\ DidNow("ratiotest")
       /\ stepres'.limitingconstraint # NoConstraint)
       => DidNow("factor_reduce")]_vars

\* C21 amended: pricing is called exactly in AtVertex iterations; an OnFace
\* iteration calls neither pricing nor deactivate nor factor.expand, does
\* not flag zero curvature and hands step length 1 to the ratio test; a
\* blocking constraint found there triggers factor.reduce unless reduce ends
\* the process
C21_OnFaceIteration ==
  [][/\ (pc = "direction") => (DidNow("price") <=> atfsep)
     /\ (pc = "direction" /\ ~atfsep)
          => /\ ~DidNow("deactivate")
             /\ ~DidNow("factor_expand")
             /\ ~zero_curvature_direction'
             /\ maxsteplength' = 1
     /\ (pc = "step" /\ ~atfsep /\ DidNow("ratiotest"))
          => /\ maxsteplength = 1
             /\ ~zero_curvature_direction
             /\ "price" \notin Range(ops')
             /\ (stepres'.limitingconstraint # NoConstraint)
                  => (DidNow("factor_reduce") <=> pc' # "exit")
    ]_vars
C21_Witness ==
  /\ pc = "loop"
  /\ "searchdir_minor" \in Range(ops)
  /\ "factor_reduce" \in Range(ops)
  /\ stepres.limitingconstraint # NoConstraint
  /\ maxsteplength = 1

TerminalStatus ==
  {"OPTIMAL", "INFEASIBLE", "UNBOUNDED", "ITERATIONLIMIT", "TIMELIMIT",
   "ERROR"}
\* the operations of the loop body, lines 231-306
BodyOps ==
  MoveOps \cup {"price", "btran", "searchdir_major", "searchdir_minor",
                "deactivate", "rowmove", "tidyup", "maxsteplength",
                "factor_expand", "redgrad_expand", "factor_reduce",
                "redgrad_reduce", "redgrad_update"}

\* C22: the solve returns with a terminal status, never NotSet, and from the
\* moment a terminal status is assigned the loop is left: no loop body is
\* entered and no pricing, ratio test, basis change or step is performed
C22_TerminalOnly ==
  /\ [](/\ (pc = "done") => (status \in TerminalStatus)
        /\ (status # "NOTSET") => (Returned \/ pc = "returned"))
  /\ [][(status # "NOTSET" /\ pc = "post")
          => /\ nbody' = nbody
             /\ Range(ops') \cap BodyOps = Range(ops) \cap BodyOps
             /\ UNCHANGED << status, basisvars, rowactivity >>]_vars
C22_Witness ==
  /\ pc = "done"
  /\ status = "TIMELIMIT"
  /\ nbody >= 1
  /\ "primal_saxpy" \in called

\* the outcome of the reduce call of the step being taken, from the
\* constraint the ratio test named and the vector left in buffer_d
ReduceNow == Reduce(inactive, stepres'.limitingconstraint, buffer_d')

\* C23: reduce names the entering constraint itself, with the unit vector
\* of its position, when that constraint is in the inactive list, and
\* otherwise a position of largest |d_i| and the inactive member at that
\* position; whenever activate follows, the inactive list was not empty,
\* the position is valid, the constraint dropped is an inactive member and
\* the constraint activated was not active
C23_ReduceChoice ==
  [][/\ ReducedNow =>
          LET q == stepres'.limitingconstraint
              idx == IndexOf(inactive, q)
          IN /\ q # NoConstraint
             /\ (idx # -1)
                  => /\ ReduceNow.maxabsd = idx
                     /\ ReduceNow.constrainttodrop = q
                     /\ buffer_d' = UnitVec(Len(inactive), idx)
                     /\ pc' # "exit"
             /\ (idx = -1)
                  => /\ DOMAIN buffer_d' = 0 .. Len(inactive) - 1
                     /\ \A i \in DOMAIN buffer_d' :
                          Abs(buffer_d'[i]) <= Abs(buffer_d'[ReduceNow.maxabsd])
                     /\ ReduceNow.constrainttodrop
                          = inactive[ReduceNow.maxabsd + 1]
     /\ DidNow("activate") =>
          /\ ReducedNow
          /\ Len(inactive) > 0
          /\ ReduceNow.maxabsd \in 0 .. Len(inactive) - 1
          /\ ReduceNow.constrainttodrop \in Range(inactive)
          /\ stepres'.limitingconstraint \notin Range(active)
          /\ active' = Append(active, stepres'.limitingconstraint)
          /\ Range(inactive') = Range(inactive) \ {ReduceNow.constrainttodrop}
    ]_vars
C23_Witness ==
  /\ pc = "loop"
  /\ "activate" \in Range(ops)
  /\ DOMAIN buffer_d = 0 .. 1
  /\ Abs(buffer_d[1]) > Abs(buffer_d[0])

\* C24: computemaxsteplength flags zero curvature and returns infinity
\* exactly when |p^T Q p| is not above the threshold; otherwise the flag
\* keeps its value and the result is 0 when -(p . g) < 0 and
\* -(p . g) / (p^T Q p) when it is not, so the step length is never negative
\* for curvature >= 0
C24_MaxStepLength ==
  [][DidNow("maxsteplength") =>
       LET denominator == curvature'
           numerator == 0 - pdotg'
       IN /\ denominator >= 0
          /\ (zero_curvature_direction' /\ ~zero_curvature_direction)
               <=> Abs(denominator) <= CurvatureThreshold
          /\ (maxsteplength' = Inf) <=> Abs(denominator) <= CurvatureThreshold
          /\ (Abs(denominator) > CurvatureThreshold)
               => /\ zero_curvature_direction' = zero_curvature_direction
                  /\ maxsteplength' = IF numerator < 0 THEN 0
                                      ELSE numerator \div denominator
          /\ maxsteplength' >= 0
    ]_vars
C24_Witness ==
  /\ pc = "step"
  /\ "maxsteplength" \in Range(ops)
  /\ curvature > CurvatureThreshold
  /\ pdotg > 0
  /\ maxsteplength = 0
  /\ ~zero_curvature_direction

\* C25: solve() returns at once when computestartingpoint reports
\* Infeasible: no Basis, no loop iteration, no snapshot, no callback, and
\* primal, dualcon and dualvar as they were; otherwise the Basis is built
\* from the crash solution and the loop starts from the crash primal and
\* its row activity
C25_StartingPoint ==
  /\ [](pc = "returned"
          => /\ status = "INFEASIBLE"
             /\ called = {"computestartingpoint"}
             /\ nbody = 0 /\ num_iterations = 0
             /\ stat_iteration = << >> /\ nfired = 0
             /\ primal = ZeroVec(Vars)
             /\ dualcon = ZeroVec(Cons)
             /\ dualvar = ZeroVec(Vars))
  /\ [][/\ (pc = "crash")
             => /\ "computestartingpoint" \in called'
                /\ IF status' = "INFEASIBLE"
                     THEN pc' = "returned" /\ UNCHANGED << pointvars, dualvars >>
                     ELSE /\ pc' = "entry"
                          /\ "basis_construct" \in called'
                          /\ active' = b0
                          /\ Len(inactive') = NumVar - Len(b0)
        /\ (pc = "entry" /\ run = 1)
             => /\ pc' = "loop"
                /\ primal' = x0
                /\ rowactivity' = MatVec(x0)
                /\ active' = b0
       ]_vars
C25_Witness ==
  /\ pc = "returned"
  /\ status = "INFEASIBLE"
  /\ "basis_construct" \notin called

\* the call on the LP relaxation made by the step being taken
LpCallNow(op) == lpcalls' = lpcalls + 1 /\ lpcall'.op = op

\* C26: storeBasis replaces the checkpoint only when currentbasisstored is
\* false and the LP basis is valid, and then sets the flag; setStoredBasis(b)
\* makes b the checkpoint and clears the flag; no other call changes either,
\* so getStoredBasis returns the argument of the last setStoredBasis or the
\* LP basis captured by the first successful storeBasis after it
C26_BasisCheckpoint ==
  /\ [](/\ basischeckpoint = IF captured # NullBasis THEN captured
                             ELSE lastset
        /\ currentbasisstored <=> captured # NullBasis
        /\ (lpcall.op = "getStoredBasis")
             => lpret = basischeckpoint /\ lpret \in {lastset, captured})
  /\ [][/\ LpCallNow("storeBasis")
             => IF ~currentbasisstored /\ lpbasis.valid
                  THEN basischeckpoint' = lpbasis /\ currentbasisstored'
                  ELSE UNCHANGED << basischeckpoint, currentbasisstored >>
        /\ LpCallNow("setStoredBasis")
             => basischeckpoint' = lpcall'.arg /\ ~currentbasisstored'
        /\ (LpCallNow("getStoredBasis") \/ lpbasis' # lpbasis)
             => UNCHANGED << basischeckpoint, currentbasisstored >>
       ]_vars
C26_Witness ==
  /\ lpcall.op = "getStoredBasis"
  /\ currentbasisstored
  /\ lpret # NullBasis
  /\ lpret # lpbasis
  /\ lpret # lastset
  /\ lpbasis.valid

\* the weights of rowWeights whose magnitude is above epsilon
AboveEpsilon(w) == [r \in SepRows |-> IF Abs(w[r]) > Epsilon THEN w[r] ELSE 0]
Negated(w) == [r \in SepRows |-> 0 - w[r]]

\* C27: at a basis position cuts are attempted exactly when the basic
\* variable is integral, its fractionality is at least 1e-4 and
\* getBasisInverseRow succeeds; then generateCut is called exactly twice,
\* on the aggregation of the rows weighted above epsilon and on its
\* negation, each with rhs 0, and the aggregator is cleared, so it is empty
\* at the start of every basis position
C27_TableauCuts ==
  /\ [](lpAggregator = EmptyAggregation /\ Len(cuts) <= 2 * basispos)
  /\ [][(basispos' = basispos + 1) =>
          LET bi == basisinds[basispos + 1]
              integral == IF bi < 0 THEN IsRowIntegral((0 - bi) - 1)
                          ELSE ~IsContinuous(bi)
              solval == IF bi < 0 THEN row_value[(0 - bi) - 1]
                        ELSE col_value[bi]
              n == Len(cuts)
          IN /\ (cuts' # cuts)
                  <=> /\ integral
                      /\ Abs(Round(solval) - solval) >= FracThreshold
                      /\ invstatus' = "OK"
             /\ (cuts' # cuts)
                  => /\ Len(cuts') = n + 2
                     /\ SubSeq(cuts', 1, n) = cuts
                     /\ cuts'[n + 1] = [pos |-> basispos, rhs |-> 0,
                                        row |-> AboveEpsilon(rowWeights')]
                     /\ cuts'[n + 2] = [pos |-> basispos, rhs |-> 0,
                                        row |-> Negated(AboveEpsilon(rowWeights'))]
       ]_vars
C27_Witness ==
  /\ seppc = "done"
  /\ Len(cuts) = 4
  /\ cuts[1].row = [r \in SepRows |-> 2]
  /\ cuts[3].row = [r \in SepRows |-> IF r = 0 THEN -2 ELSE 0]
  /\ cuts[4].row = Negated(cuts[3].row)
  /\ lpAggregator = EmptyAggregation

====
